---- MODULE Spec2Model ----
(***************************************************************************)
(* The two-pass assembler of js/src/utils/language/asmCompiler.ts          *)
(* (class AsmCompiler) and its caller asm2dsl of compilers.ts.             *)
(*                                                                         *)
(* One emit call is modelled step by step: the per-line callback handed to *)
(* catchAndReportErrors (one step per source line), the gate on the        *)
(* collected errors, the data layout, the code layout, one step per        *)
(* deferred producer invoked, and the final join.                          *)
(*                                                                         *)
(* The helper module dslaHelpers, the instruction set (dsla) and the       *)
(* code-to-comment table (dslmachine) are imported by the assembler but    *)
(* are not part of the sources at hand; their definitions below follow the *)
(* specification text and are marked as such.                              *)
(***************************************************************************)
EXTENDS Integers, Sequences, FiniteSets, TLC

\* ------------------------------------------------------------------ bounds

\* Longest source text (in lines) handed to emit.
MaxLines == 3

\* Most emit calls issued for one source text.
MaxEmits == 2

\* ------------------------------------------------------- the source lines

\* The raw source lines programs are built from.  In Data state the lines
\* that are neither `.text` nor a `var` declaration are continuation lines;
\* in Text state "7" is an unknown mnemonic and "jump !" an instruction
\* with an operand that does not parse.
Lines ==
    { "  ", ".data", ".text",
      "var x 5", "var a array 1", "var a array", "7",
      "start:", "start: noop", "noop", "jump start", "jump !", "load x", "# c" }

\* String.prototype.trim on the lines above: only the whitespace-only line
\* changes.
trim(line) == IF line = "  " THEN "" ELSE line

\* line.replace(spaceRegex, ' ').split(' ') on a trimmed, non-empty line.
split(line) ==
    CASE line = ".data"         -> << ".data" >>
      [] line = ".text"         -> << ".text" >>
      [] line = "var x 5"       -> << "var", "x", "5" >>
      [] line = "var a array 1" -> << "var", "a", "array", "1" >>
      [] line = "var a array"   -> << "var", "a", "array" >>
      [] line = "7"             -> << "7" >>
      [] line = "start:"        -> << "start:" >>
      [] line = "start: noop"   -> << "start:", "noop" >>
      [] line = "noop"          -> << "noop" >>
      [] line = "jump start"    -> << "jump", "start" >>
      [] line = "jump !"        -> << "jump", "!" >>
      [] line = "load x"        -> << "load", "x" >>
      [] line = "# c"           -> << "#", "c" >>

\* line.startsWith('var')
doesLineStartNewGlobal(line) ==
    line \in { "var x 5", "var a array 1", "var a array" }

\* ---------------------------------------------- dslaHelpers (from the spec)

\* The numeric tokens and their values.
Digits == { "1", "5", "7" }

toInt(tok) ==
    CASE tok = "1" -> 1
      [] tok = "5" -> 5
      [] tok = "7" -> 7

\* A label token is an identifier followed by a colon.
isLabel(tok) == tok = "start:"

\* The name a label token declares.
getLabel(tok) == IF tok = "start:" THEN "start" ELSE tok

isComment(tok) == tok = "#"

\* VariableType
Scalar == "var"
Array == "array"

\* A thrown DSLError; NoError stands for a normal return.
NoError == [ msg |-> "", name |-> "" ]

DSLError(msg, name) == [ msg |-> msg, name |-> name ]

\* startGlobalDeclaration: `var <name> <value>` declares a Scalar,
\* `var <name> array <values...>` an Array.
startGlobalDeclaration(line) ==
    LET toks == split(line) IN
    IF Len(toks) >= 3 /\ toks[3] = "array"
    THEN [ name  |-> toks[2],
           type  |-> Array,
           value |-> [ isArray |-> TRUE,
                       items   |-> [ i \in 1 .. (Len(toks) - 3) |-> toInt(toks[i + 3]) ] ] ]
    ELSE [ name  |-> toks[2],
           type  |-> Scalar,
           value |-> [ isArray |-> FALSE, items |-> << toInt(toks[3]) >> ] ]

\* continueGlobalDeclaration: the values of a continuation line; a line with
\* a token that is no number is a malformed continuation.
continuationIsMalformed(line) ==
    \E i \in 1 .. Len(split(line)) : split(line)[i] \notin Digits

continueGlobalDeclaration(line) ==
    [ i \in 1 .. Len(split(line)) |-> toInt(split(line)[i]) ]

\* catchAndReportErrors: the error thrown by the callback on line `lineNum`,
\* if any, is recorded and the iteration goes on with the next line.
catchAndReportErrors(errs, lineNum, thrown) ==
    IF thrown = NoError
    THEN errs
    ELSE Append(errs, [ line |-> lineNum, msg |-> thrown.msg, name |-> thrown.name ])

\* ------------------------------------------ the instruction set (a stub)

\* A deferred word producer: the words it yields are `words`, followed by
\* the location of the symbol `name` of table `ref` ("var", "label") looked
\* up when it is invoked ("none": no lookup).
Producer(words, ref, name) == [ words |-> words, ref |-> ref, name |-> name ]

\* The mnemonics bound by the opcode factory.
Mnemonics == { "noop", "jump", "load" }

\* opcodes[first](args): `noop` is one producer of one word, `jump <label>`
\* one producer of two words, `load <var>` two producers of one word each.
opcode(first, args) ==
    CASE first = "noop" ->
           [ generatingOperation |-> "noop",
             operations |-> << Producer(<< 1 >>, "none", "") >> ]
      [] first = "jump" ->
           [ generatingOperation |-> "jump " \o args,
             operations |-> << Producer(<< 2 >>, "label", args) >> ]
      [] first = "load" ->
           [ generatingOperation |-> "load " \o args,
             operations |-> << Producer(<< 3 >>, "none", ""),
                               Producer(<< >>, "var", args) >> ]

\* parseArguments throws on operand text that does not parse.
argumentsAreMalformed(rest) == \E i \in 1 .. Len(rest) : rest[i] = "!"

\* rest.join(' ') followed by parseArguments, for at most one operand.
parseArguments(rest) == IF rest = << >> THEN "" ELSE rest[1]

\* DslCodeToComment: the names of the machine codes; "" where the table has
\* no entry.
DslCodeToComment(code) ==
    CASE code = 1 -> "NOOP"
      [] code = 2 -> "JUMP"
      [] code = 3 -> "LOAD"
      [] OTHER    -> ""

\* ------------------------------------------------------------ the elements

\* new LabelDeclaration(location, name)
LabelDeclaration(location, name) ==
    [ kind |-> "label", location |-> location, name |-> name,
      generatingOperation |-> "", operations |-> << >> ]

\* new AsmDeclaration(location, op, operations)
AsmDeclaration(location, op, operations) ==
    [ kind |-> "asm", location |-> location, name |-> op,
      generatingOperation |-> operations.generatingOperation,
      operations |-> operations.operations ]

\* new GlobalVariableDeclaration(location, name, typeName, value)
GlobalVariableDeclaration(location, name, typeName, value) ==
    [ location |-> location, name |-> name, typeName |-> typeName, value |-> value ]

\* GlobalVariableDeclaration.emit: the value itself when it is an array, the
\* one-element array of the value otherwise.
emitGlobal(gvd) == gvd.value.items

lineStartGlobalDeclaration(line) ==
    LET start == startGlobalDeclaration(line) IN
    GlobalVariableDeclaration(0, start.name, start.type, start.value)

\* lineContinueGlobalDeclaration without the test of the kind.
lineContinueGlobalDeclaration_anyKind(line, dec) ==
    IF continuationIsMalformed(line)
    THEN [ dec |-> dec, thrown |-> DSLError("Malformed continuation", "") ]
    ELSE [ dec    |-> [ dec EXCEPT !.value.items = @ \o continueGlobalDeclaration(line) ],
           thrown |-> NoError ]

\* Returns the declaration as left by the call and the error thrown, if any.
lineContinueGlobalDeclaration(line, dec) ==
    IF ~dec.value.isArray \/ dec.typeName # Array
    THEN [ dec |-> dec, thrown |-> DSLError("Cannot continue on type", dec.typeName) ]
    ELSE IF continuationIsMalformed(line)
    THEN [ dec |-> dec, thrown |-> DSLError("Malformed continuation", "") ]
    ELSE [ dec    |-> [ dec EXCEPT !.value.items = @ \o continueGlobalDeclaration(line) ],
           thrown |-> NoError ]

\* ----------------------------------------------------- the assembler object

\* The fields of a newly constructed AsmCompiler.  The two symbol tables map
\* a name to the position, in globalsIndex or elementIndex, of the object
\* the table entry refers to; `thrown` is the error of the call in progress.
constructor ==
    [ variables    |-> << >>,
      labels       |-> << >>,
      elementIndex |-> << >>,
      globalsIndex |-> << >>,
      thrown       |-> NoError ]

throw(c, err) == [ c EXCEPT !.thrown = err ]

getNextElementIndex(c) == Len(c.elementIndex)

\* insertElement writing over the last element instead of pushing.
insertElement_overwrite(c, e) ==
    [ c EXCEPT !.elementIndex = IF @ = << >> THEN << e >> ELSE [ @ EXCEPT ![Len(@)] = e ] ]

insertElement(c, e) == [ c EXCEPT !.elementIndex = Append(@, e) ]

\* makeLabel without the test for a label of that name.
makeLabel_noTest(c, str) ==
    LET label == LabelDeclaration(getNextElementIndex(c), str)
        d     == insertElement(c, label)
    IN  [ d EXCEPT !.labels = (str :> Len(d.elementIndex)) @@ @ ]

\* makeLabel inserting the element before the test of the name.
makeLabel_insertFirst(c, str) ==
    LET label == LabelDeclaration(getNextElementIndex(c), str)
        d     == insertElement(c, label)
    IN  IF str \in DOMAIN c.labels
        THEN throw(d, DSLError("Already have a label", str))
        ELSE [ d EXCEPT !.labels = (str :> Len(d.elementIndex)) @@ @ ]

makeLabel(c, str) ==
    IF str \in DOMAIN c.labels
    THEN throw(c, DSLError("Already have a label", str))
    ELSE LET label == LabelDeclaration(getNextElementIndex(c), str)
             d     == insertElement(c, label)
         IN  [ d EXCEPT !.labels = (str :> Len(d.elementIndex)) @@ @ ]

makeAsmStatement(c, op, params) ==
    insertElement(c, AsmDeclaration(getNextElementIndex(c), op, params))

\* makeGlobal without the test for a variable of that name.
makeGlobal_noTest(c, line) ==
    LET a == lineStartGlobalDeclaration(line) IN
    [ c EXCEPT !.variables    = (a.name :> (Len(c.globalsIndex) + 1)) @@ @,
               !.globalsIndex = Append(@, a) ]

makeGlobal(c, line) ==
    LET a == lineStartGlobalDeclaration(line) IN
    IF a.name \in DOMAIN c.variables
    THEN throw(c, DSLError("Already have a variable", a.name))
    ELSE [ c EXCEPT !.variables    = (a.name :> (Len(c.globalsIndex) + 1)) @@ @,
                    !.globalsIndex = Append(@, a) ]

\* The position of the last declared global; 0 when there is none.
getLastDeclaredGlobal(c) == Len(c.globalsIndex)

\* callbackNone without its last branch: any other leading line is taken as
\* the start of the text section.
callbackNone_lenient(c, section, first) ==
    IF first = ".data"
    THEN [ c |-> c, section |-> "data" ]
    ELSE [ c |-> c, section |-> "text" ]

\* The callback's branch for section === SECTION.none.
callbackNone(c, section, first) ==
    IF first = ".text"
    THEN [ c |-> c, section |-> "text" ]
    ELSE IF first = ".data"
    THEN [ c |-> c, section |-> "data" ]
    ELSE [ c |-> throw(c, DSLError(".text or .data must be first in program", "")),
           section |-> section ]

\* callbackData taking `.data` as a directive as well.
callbackData_dataDirective(c, section, line, first) ==
    IF first = ".text"
    THEN [ c |-> c, section |-> "text" ]
    ELSE IF first = ".data"
    THEN [ c |-> c, section |-> "data" ]
    ELSE LET lastVar == getLastDeclaredGlobal(c) IN
         IF doesLineStartNewGlobal(line)
         THEN [ c |-> makeGlobal(c, line), section |-> section ]
         ELSE IF lastVar # 0
         THEN LET r == lineContinueGlobalDeclaration(line, c.globalsIndex[lastVar]) IN
              [ c |-> [ c EXCEPT !.globalsIndex[lastVar] = r.dec, !.thrown = r.thrown ],
                section |-> section ]
         ELSE [ c |-> c, section |-> section ]

\* The callback's branch for section === SECTION.data.
callbackData(c, section, line, first) ==
    IF first = ".text"
    THEN [ c |-> c, section |-> "text" ]
    ELSE LET lastVar == getLastDeclaredGlobal(c) IN
         IF doesLineStartNewGlobal(line)
         THEN [ c |-> makeGlobal(c, line), section |-> section ]
         ELSE IF lastVar # 0
         THEN LET r == lineContinueGlobalDeclaration(line, c.globalsIndex[lastVar]) IN
              [ c |-> [ c EXCEPT !.globalsIndex[lastVar] = r.dec, !.thrown = r.thrown ],
                section |-> section ]
         ELSE [ c |-> c, section |-> section ]

\* callbackText without the branch of the `.data` directive.
callbackText_noData(c, section, first, rest) ==
    IF isComment(first)
    THEN [ c |-> c, section |-> section ]
    ELSE IF isLabel(first)
    THEN IF rest = << >>
         THEN [ c |-> makeLabel(c, getLabel(first)), section |-> section ]
         ELSE [ c |-> throw(c, DSLError("Label must not have anything else on the same line", first)),
                section |-> section ]
    ELSE IF first \notin Mnemonics
    THEN [ c |-> throw(c, DSLError("Invalid operation", first)), section |-> section ]
    ELSE IF argumentsAreMalformed(rest)
    THEN [ c |-> throw(c, DSLError("Invalid arguments", first)), section |-> section ]
    ELSE [ c |-> makeAsmStatement(c, first, opcode(first, parseArguments(rest))),
           section |-> section ]

\* The callback's remaining branch, reached with section === SECTION.text.
callbackText(c, section, first, rest) ==
    IF isComment(first)
    THEN [ c |-> c, section |-> section ]
    ELSE IF first = ".data"
    THEN [ c |-> c, section |-> "data" ]
    ELSE IF isLabel(first)
    THEN IF rest = << >>
         THEN [ c |-> makeLabel(c, getLabel(first)), section |-> section ]
         ELSE [ c |-> throw(c, DSLError("Label must not have anything else on the same line", first)),
                section |-> section ]
    ELSE IF first \notin Mnemonics
    THEN [ c |-> throw(c, DSLError("Invalid operation", first)), section |-> section ]
    ELSE IF argumentsAreMalformed(rest)
    THEN [ c |-> throw(c, DSLError("Invalid arguments", first)), section |-> section ]
    ELSE [ c |-> makeAsmStatement(c, first, opcode(first, parseArguments(rest))),
           section |-> section ]

\* The callback emit hands to catchAndReportErrors, applied to one line in
\* section state `section`: the object and the section state it leaves.
callback(c, section, rawLine) ==
    LET line == trim(rawLine) IN
    IF line = ""
    THEN [ c |-> c, section |-> section ]
    ELSE
    LET norm  == split(line)
        first == Head(norm)
        rest  == Tail(norm)
    IN
    IF section = "none"
    THEN callbackNone(c, section, first)
    ELSE IF section = "data"
    THEN callbackData(c, section, line, first)
    ELSE callbackText(c, section, first, rest)

\* --------------------------------------------------------- code generation

\* One entry of `codes`: a bare number (comment "") or `number comment`.
Entry(word, comment) == [ word |-> word, comment |-> comment ]

bare(words) == [ i \in 1 .. Len(words) |-> Entry(words[i], "") ]

\* The text of one listing entry.
render(e) ==
    IF e.comment = "" THEN ToString(e.word) ELSE ToString(e.word) \o " " \o e.comment

\* codes.join('\n'): the listing, one rendered entry per line.
join(cs) == [ i \in 1 .. Len(cs) |-> render(cs[i]) ]

\* layoutGlobals with the location one word further on.
RECURSIVE layoutGlobals_offByOne(_, _, _)
layoutGlobals_offByOne(globals, i, cs) ==
    IF i > Len(globals)
    THEN [ globalsIndex |-> globals, codes |-> cs ]
    ELSE
    LET gvd     == globals[i]
        comment == "#" \o gvd.typeName \o " " \o gvd.name
        emitted == emitGlobal(gvd)
    IN
    IF Len(emitted) > 0
    THEN LET values == Append(cs, Entry(Head(emitted), comment)) \o bare(Tail(emitted))
             all    == IF gvd.typeName = Array
                       THEN Append(values, Entry(0, "#end " \o gvd.name))
                       ELSE values
         IN  layoutGlobals_offByOne([ globals EXCEPT ![i].location = Len(cs) + 1 ], i + 1, all)
    ELSE layoutGlobals_offByOne(globals, i + 1, cs)

\* layoutGlobals without the end sentinel of an Array.
RECURSIVE layoutGlobals_noSentinel(_, _, _)
layoutGlobals_noSentinel(globals, i, cs) ==
    IF i > Len(globals)
    THEN [ globalsIndex |-> globals, codes |-> cs ]
    ELSE
    LET gvd     == globals[i]
        comment == "#" \o gvd.typeName \o " " \o gvd.name
        emitted == emitGlobal(gvd)
    IN
    IF Len(emitted) > 0
    THEN LET values == Append(cs, Entry(Head(emitted), comment)) \o bare(Tail(emitted))
         IN  layoutGlobals_noSentinel([ globals EXCEPT ![i].location = Len(cs) ], i + 1, values)
    ELSE layoutGlobals_noSentinel(globals, i + 1, cs)

\* The data layout, this.globalsIndex.forEach from global `i` on: the
\* globals and the codes it leaves.
RECURSIVE layoutGlobals(_, _, _)
layoutGlobals(globals, i, cs) ==
    IF i > Len(globals)
    THEN [ globalsIndex |-> globals, codes |-> cs ]
    ELSE
    LET gvd     == globals[i]
        comment == "#" \o gvd.typeName \o " " \o gvd.name
        emitted == emitGlobal(gvd)
    IN
    IF Len(emitted) > 0
    THEN LET values == Append(cs, Entry(Head(emitted), comment)) \o bare(Tail(emitted))
             all    == IF gvd.typeName = Array
                       THEN Append(values, Entry(0, "#end " \o gvd.name))
                       ELSE values
         IN  layoutGlobals([ globals EXCEPT ![i].location = Len(cs) ], i + 1, all)
    ELSE layoutGlobals(globals, i + 1, cs)

\* The placeholder producer of a label, () => [0].
placeholder == Producer(<< 0 >>, "none", "")

\* layoutElements leaving the length of the data segment out of the
\* locations.
RECURSIVE layoutElements_noData(_, _, _, _, _)
layoutElements_noData(elements, i, codesLength, exp, comments) ==
    IF i > Len(elements)
    THEN [ elementIndex |-> elements, expanded |-> exp, commentIndex |-> comments ]
    ELSE
    LET e      == elements[i]
        placed == [ elements EXCEPT ![i].location = Len(exp) ]
    IN
    IF e.kind = "asm"
    THEN layoutElements_noData(placed, i + 1, codesLength, exp \o e.operations,
                               (Len(exp) :> e.generatingOperation) @@ comments)
    ELSE layoutElements_noData(placed, i + 1, codesLength, Append(exp, placeholder),
                               (Len(exp) :> e.name) @@ comments)

\* The code layout, this.elementIndex.forEach from element `i` on, with
\* codes.length = codesLength: the elements, the producers and the comments
\* (keyed by the 0-based position of a producer in `exp`) it leaves.
RECURSIVE layoutElements(_, _, _, _, _)
layoutElements(elements, i, codesLength, exp, comments) ==
    IF i > Len(elements)
    THEN [ elementIndex |-> elements, expanded |-> exp, commentIndex |-> comments ]
    ELSE
    LET e      == elements[i]
        placed == [ elements EXCEPT ![i].location = Len(exp) + codesLength ]
    IN
    IF e.kind = "asm"
    THEN layoutElements(placed, i + 1, codesLength, exp \o e.operations,
                        (Len(exp) :> e.generatingOperation) @@ comments)
    ELSE layoutElements(placed, i + 1, codesLength, Append(exp, placeholder),
                        (Len(exp) :> e.name) @@ comments)

\* varGetter yielding 0 for a name that is not in the table.
varGetter_defaultZero(c, str) ==
    IF str \in DOMAIN c.variables
    THEN [ ok |-> TRUE, value |-> c.globalsIndex[c.variables[str]].location, error |-> "" ]
    ELSE [ ok |-> TRUE, value |-> 0, error |-> "" ]

\* The deferred lookup varGetter returns for `str`, invoked on object c.
varGetter(c, str) ==
    IF str \in DOMAIN c.variables
    THEN [ ok |-> TRUE, value |-> c.globalsIndex[c.variables[str]].location, error |-> "" ]
    ELSE [ ok |-> FALSE, value |-> 0, error |-> "Cannot find variable" ]

\* labelGetter yielding the location the label was constructed with (its
\* position in the element list when declared) instead of the current one.
labelGetter_atDeclaration(c, str) ==
    IF str \in DOMAIN c.labels
    THEN [ ok |-> TRUE, value |-> c.labels[str] - 1, error |-> "" ]
    ELSE [ ok |-> FALSE, value |-> 0, error |-> "Cannot find label" ]

\* labelGetter looking the name up in the variable table.
labelGetter_wrongTable(c, str) ==
    IF str \in DOMAIN c.variables
    THEN [ ok |-> TRUE, value |-> c.globalsIndex[c.variables[str]].location, error |-> "" ]
    ELSE [ ok |-> FALSE, value |-> 0, error |-> "Cannot find label" ]

\* The deferred lookup labelGetter returns for `str`, invoked on object c.
labelGetter(c, str) ==
    IF str \in DOMAIN c.labels
    THEN [ ok |-> TRUE, value |-> c.elementIndex[c.labels[str]].location, error |-> "" ]
    ELSE [ ok |-> FALSE, value |-> 0, error |-> "Cannot find label" ]

\* mOp(): the words the producer yields, or the Error its lookup throws.
invoke(c, mOp) ==
    IF mOp.ref = "none"
    THEN [ ok |-> TRUE, words |-> mOp.words, error |-> "", name |-> "" ]
    ELSE LET r == IF mOp.ref = "var" THEN varGetter(c, mOp.name) ELSE labelGetter(c, mOp.name)
         IN  [ ok    |-> r.ok,
               words |-> IF r.ok THEN Append(mOp.words, r.value) ELSE << >>,
               error |-> r.error,
               name  |-> IF r.ok THEN "" ELSE mOp.name ]

\* The entries one invoked producer adds to codes; `generatorComment` is
\* commentIndex[index], "" when there is none.
resolved(emitted, generatorComment) ==
    LET dslCodeComment == DslCodeToComment(Head(emitted)) IN
    IF generatorComment # "" \/ dslCodeComment # ""
    THEN LET comment == IF generatorComment # ""
                        THEN generatorComment \o " -- " \o dslCodeComment
                        ELSE dslCodeComment
         IN  << Entry(Head(emitted), "# " \o comment) >> \o bare(Tail(emitted))
    ELSE bare(emitted)

\* ------------------------------------------------------------- the state

VARIABLES
    variables,      \* this.variables: name -> position in globalsIndex
    labels,         \* this.labels: name -> position in elementIndex
    elementIndex,   \* this.elementIndex
    globalsIndex,   \* this.globalsIndex
    text,           \* the argument of the emit call in progress (or last made)
    pc,             \* where the emit call stands
    section,        \* emit's local `section`
    lineNo,         \* the number of lines catchAndReportErrors has gone through
    errors,         \* the errors catchAndReportErrors has collected
    codes,          \* emit's local `codes`
    expanded,       \* emit's local `expanded`
    commentIndex,   \* emit's local `commentIndex`
    index,          \* the number of producers expanded.forEach has gone through
    failure,        \* the Error a deferred lookup threw out of emit
    listing,        \* the value emit returned
    scanned,        \* history: what the callback threw on each line gone through
    invoked,        \* history: the producers invoked by this call and their words
    calls,          \* history: the emit calls started on this object
    emits,          \* history: the emit calls started for this text
    results         \* history: how each finished emit call for this text ended

instance == << variables, labels, elementIndex, globalsIndex >>

locals == << section, lineNo, errors, codes, expanded, commentIndex, index, failure,
             listing, scanned, invoked >>

vars == << variables, labels, elementIndex, globalsIndex, text, pc, section, lineNo,
           errors, codes, expanded, commentIndex, index, failure, listing, scanned,
           invoked, calls, emits, results >>

\* The object as the operators above take it.
this ==
    [ variables    |-> variables,
      labels       |-> labels,
      elementIndex |-> elementIndex,
      globalsIndex |-> globalsIndex,
      thrown       |-> NoError ]

\* ------------------------------------------------------------- the inputs

\* The end-to-end example and the same program with the label on a line of
\* its own.
Example == << ".data", "var x 5", ".text", "start: noop", "jump start" >>

ExampleSplit == << ".data", "var x 5", ".text", "start:", "noop", "jump start" >>

\* A label referenced before and after its declaration.
BothWays == << ".text", "jump start", "start:", "jump start" >>

\* A continuation line after a Scalar and one after an Array.
Continuations == << ".data", "var x 5", "7", "var a array 1", "7" >>

\* Data and Text sections that alternate, with a global declared in each
\* Data section.
Alternating == << ".data", "var x 5", ".text", "noop", ".data", "var a array 1" >>

\* Lines that fail after a declaration of each kind: a duplicate global, a
\* continuation of a Scalar and a duplicate label.
Failures == << ".data", "var x 5", "var x 5", "7", ".text", "start:", "start:" >>

\* The source texts handed to emit: every text of at most MaxLines lines,
\* and the six above.
Programs ==
    UNION { [ 1 .. n -> Lines ] : n \in 0 .. MaxLines }
        \cup { Example, ExampleSplit, BothWays, Continuations, Alternating, Failures }

\* How a call ended: with the listing, with the DSLAggregateError of the
\* errors collected, or with the Error of a deferred lookup.
Ended == { "returned", "aggregate", "failed" }

\* ------------------------------------------------------------ the actions

Init ==
    /\ variables = constructor.variables
    /\ labels = constructor.labels
    /\ elementIndex = constructor.elementIndex
    /\ globalsIndex = constructor.globalsIndex
    /\ text = << >>
    /\ pc = "idle"
    /\ section = "none"
    /\ lineNo = 0
    /\ errors = << >>
    /\ codes = << >>
    /\ expanded = << >>
    /\ commentIndex = << >>
    /\ index = 0
    /\ failure = NoError
    /\ listing = << >>
    /\ scanned = << >>
    /\ invoked = << >>
    /\ calls = 0
    /\ emits = 0
    /\ results = << >>

\* The entry of emit(t): its locals as declared.
enter(t) ==
    /\ text' = t
    /\ pc' = "scan"
    /\ section' = "none"
    /\ lineNo' = 0
    /\ errors' = << >>
    /\ codes' = << >>
    /\ expanded' = << >>
    /\ commentIndex' = << >>
    /\ index' = 0
    /\ failure' = NoError
    /\ listing' = << >>
    /\ scanned' = << >>
    /\ invoked' = << >>
    /\ emits' = emits + 1

\* emit is called on the newly constructed object.
Emit ==
    /\ pc = "idle"
    /\ \E t \in Programs : enter(t)
    /\ calls' = calls + 1
    /\ UNCHANGED << instance, results >>

\* EmitAgain with an emit that clears the tables and the lists on entry.
EmitAgain_resetting ==
    /\ pc \in Ended
    /\ emits < MaxEmits
    /\ results[1].outcome = "returned"
    /\ variables' = constructor.variables
    /\ labels' = constructor.labels
    /\ elementIndex' = constructor.elementIndex
    /\ globalsIndex' = constructor.globalsIndex
    /\ enter(text)
    /\ calls' = calls + 1
    /\ UNCHANGED results

\* A text that assembled is handed to emit once more, on the same object.
EmitAgain ==
    /\ pc \in Ended
    /\ emits < MaxEmits
    /\ results[1].outcome = "returned"
    /\ enter(text)
    /\ calls' = calls + 1
    /\ UNCHANGED << instance, results >>

\* asm2dsl: a text that assembled is handed to emit of a new object.
asm2dsl ==
    /\ pc \in Ended
    /\ emits < MaxEmits
    /\ results[1].outcome = "returned"
    /\ variables' = constructor.variables
    /\ labels' = constructor.labels
    /\ elementIndex' = constructor.elementIndex
    /\ globalsIndex' = constructor.globalsIndex
    /\ enter(text)
    /\ calls' = 1
    /\ UNCHANGED results

\* catchAndReportErrors runs the callback on the next line.
ScanLine ==
    /\ pc = "scan"
    /\ lineNo < Len(text)
    /\ LET r == callback(this, section, text[lineNo + 1]) IN
         /\ variables' = r.c.variables
         /\ labels' = r.c.labels
         /\ elementIndex' = r.c.elementIndex
         /\ globalsIndex' = r.c.globalsIndex
         /\ section' = r.section
         /\ errors' = catchAndReportErrors(errors, lineNo + 1, r.c.thrown)
         /\ scanned' = Append(scanned, r.c.thrown)
    /\ lineNo' = lineNo + 1
    /\ UNCHANGED << text, pc, codes, expanded, commentIndex, index, failure, listing,
                    invoked, calls, emits, results >>

outcome(how, errs, fail, lst) ==
    [ outcome |-> how, errors |-> errs, failure |-> fail, listing |-> lst,
      calls |-> calls, variables |-> DOMAIN variables, labels |-> DOMAIN labels ]

\* ThrowAggregate raising the first error only.
ThrowAggregate_firstOnly ==
    /\ pc = "scan"
    /\ lineNo = Len(text)
    /\ errors # << >>
    /\ pc' = "aggregate"
    /\ results' = Append(results, outcome("aggregate", << Head(errors) >>, NoError, << >>))
    /\ UNCHANGED << instance, text, locals, calls, emits >>

\* errors.length !== 0: throw new DSLAggregateError(errors).
ThrowAggregate ==
    /\ pc = "scan"
    /\ lineNo = Len(text)
    /\ errors # << >>
    /\ pc' = "aggregate"
    /\ results' = Append(results, outcome("aggregate", errors, NoError, << >>))
    /\ UNCHANGED << instance, text, locals, calls, emits >>

\* LayoutData without the test errors.length === 0.
LayoutData_ungated ==
    /\ pc = "scan"
    /\ lineNo = Len(text)
    /\ LET r == layoutGlobals(globalsIndex, 1, << Entry(0, "") >>) IN
         /\ globalsIndex' = r.globalsIndex
         /\ codes' = r.codes
    /\ pc' = "layout"
    /\ UNCHANGED << variables, labels, elementIndex, text, section, lineNo, errors,
                    expanded, commentIndex, index, failure, listing, scanned, invoked,
                    calls, emits, results >>

\* errors.length === 0: codes = [0] and the data layout.
LayoutData ==
    /\ pc = "scan"
    /\ lineNo = Len(text)
    /\ errors = << >>
    /\ LET r == layoutGlobals(globalsIndex, 1, << Entry(0, "") >>) IN
         /\ globalsIndex' = r.globalsIndex
         /\ codes' = r.codes
    /\ pc' = "layout"
    /\ UNCHANGED << variables, labels, elementIndex, text, section, lineNo, errors,
                    expanded, commentIndex, index, failure, listing, scanned, invoked,
                    calls, emits, results >>

\* The code layout.
LayoutCode ==
    /\ pc = "layout"
    /\ LET r == layoutElements(elementIndex, 1, Len(codes), << >>, << >>) IN
         /\ elementIndex' = r.elementIndex
         /\ expanded' = r.expanded
         /\ commentIndex' = r.commentIndex
    /\ pc' = "resolve"
    /\ UNCHANGED << variables, labels, globalsIndex, text, section, lineNo, errors,
                    codes, index, failure, listing, scanned, invoked, calls, emits,
                    results >>

\* expanded.forEach invokes the next producer, which yields its words.
Resolve ==
    /\ pc = "resolve"
    /\ index < Len(expanded)
    /\ LET r == invoke(this, expanded[index + 1]) IN
         /\ r.ok
         /\ invoked' = Append(invoked, [ index |-> index, words |-> r.words ])
         /\ codes' = codes \o resolved(r.words,
                                       IF index \in DOMAIN commentIndex
                                       THEN commentIndex[index] ELSE "")
    /\ index' = index + 1
    /\ UNCHANGED << instance, text, pc, section, lineNo, errors, expanded, commentIndex,
                    failure, listing, scanned, calls, emits, results >>

\* expanded.forEach invokes the next producer, whose lookup throws.
ResolveFail ==
    /\ pc = "resolve"
    /\ index < Len(expanded)
    /\ LET r == invoke(this, expanded[index + 1]) IN
         /\ ~r.ok
         /\ failure' = DSLError(r.error, r.name)
         /\ results' = Append(results, outcome("failed", << >>, DSLError(r.error, r.name), << >>))
    /\ invoked' = Append(invoked, [ index |-> index, words |-> << >> ])
    /\ pc' = "failed"
    /\ UNCHANGED << instance, text, section, lineNo, errors, codes, expanded,
                    commentIndex, index, listing, scanned, calls, emits >>

\* return codes.join('\n').
Return ==
    /\ pc = "resolve"
    /\ index = Len(expanded)
    /\ listing' = join(codes)
    /\ results' = Append(results, outcome("returned", << >>, NoError, join(codes)))
    /\ pc' = "returned"
    /\ UNCHANGED << instance, text, section, lineNo, errors, codes, expanded,
                    commentIndex, index, failure, scanned, invoked, calls, emits >>

Next ==
    \/ Emit
    \/ EmitAgain
    \/ asm2dsl
    \/ ScanLine
    \/ ThrowAggregate
    \/ LayoutData
    \/ LayoutCode
    \/ Resolve
    \/ ResolveFail
    \/ Return

Spec == Init /\ [][Next]_vars

\* ------------------------------------------------------------- the claims

\* The position of the first line of t that is not blank; 0 when there is none.
firstMeaningful(t) ==
    IF \E i \in 1 .. Len(t) : trim(t[i]) # ""
    THEN CHOOSE i \in 1 .. Len(t) :
            /\ trim(t[i]) # ""
            /\ \A j \in 1 .. (i - 1) : trim(t[j]) = ""
    ELSE 0

\* The first non-blank line of t starts with something else than a directive.
badStart(t) ==
    /\ firstMeaningful(t) # 0
    /\ Head(split(trim(t[firstMeaningful(t)]))) \notin { ".data", ".text" }

\* No element and no global has another location than its constructor gave it.
noLocationAssigned ==
    /\ \A i \in 1 .. Len(elementIndex) : elementIndex[i].location = i - 1
    /\ \A i \in 1 .. Len(globalsIndex) : globalsIndex[i].location = 0

\* No part of the code generation has run in this call.
noCodeGeneration ==
    /\ codes = << >>
    /\ expanded = << >>
    /\ invoked = << >>
    /\ listing = << >>

\* C1: a program whose first non-blank line does not start with `.data` or
\* `.text` gets a Line Error for that line, which the Aggregate Error
\* carries, and no code generation: the call never leaves the scan but by
\* the Aggregate Error, no location is assigned, no producer is invoked and
\* no listing is returned, whatever lines follow.
C1_BadStartFails ==
    (pc # "idle" /\ badStart(text)) =>
        /\ pc \in { "scan", "aggregate" }
        /\ noCodeGeneration
        /\ noLocationAssigned
        /\ lineNo >= firstMeaningful(text) =>
              /\ errors # << >>
              /\ errors[1] = [ line |-> firstMeaningful(text),
                               msg  |-> ".text or .data must be first in program",
                               name |-> "" ]
        /\ pc = "aggregate" =>
              /\ lineNo = Len(text)
              /\ results[Len(results)].outcome = "aggregate"
              /\ results[Len(results)].errors = errors

\* C1 witness: the Aggregate Error of a program that starts with an
\* instruction and declares a label further on.
C1_Witness ==
    /\ pc = "aggregate"
    /\ text = << "noop", ".text", "start:" >>
    /\ Len(elementIndex) = 1
    /\ errors[1].line = 1

\* The producers of element e that look a name up.
lookups(e) == { k \in 1 .. Len(e.operations) : e.operations[k].ref # "none" }

\* Every name a declared instruction refers to is in the table it is looked
\* up in.
referencesDeclared ==
    \A i \in 1 .. Len(elementIndex) : \A k \in lookups(elementIndex[i]) :
        LET p == elementIndex[i].operations[k] IN
        IF p.ref = "var" THEN p.name \in DOMAIN variables ELSE p.name \in DOMAIN labels

\* The lines of the call in progress on which the callback threw.
failedLines == { i \in 1 .. Len(scanned) : scanned[i] # NoError }

\* C2 as stated: an emit call ends with the listing or with the Aggregate
\* Error, and a scan that recorded no error is followed by the listing.
C2_TwoOutcomes ==
    pc \in Ended =>
        \/ pc = "returned" /\ errors = << >>
        \/ pc = "aggregate" /\ errors # << >>

\* C2 amended: an emit call ends in exactly one of three ways: it returns
\* the full listing (no line failed); it raises one Aggregate Error with an
\* error for every line that failed, and generates no code; or, no line
\* having failed, the lookup of a name that is declared nowhere throws its
\* Error out of emit, which returns no listing.  When the scan recorded no
\* error and every referenced name is declared, every lookup succeeds and
\* the listing is returned.
C2_ThreeOutcomes ==
    /\ pc = "returned" =>
          /\ errors = << >> /\ failure = NoError
          /\ index = Len(expanded)
          /\ Len(listing) >= 1 /\ listing = join(codes)
          /\ results[Len(results)].outcome = "returned"
          /\ results[Len(results)].listing = listing
    /\ pc = "aggregate" =>
          /\ errors # << >> /\ failure = NoError
          /\ noCodeGeneration
          /\ results[Len(results)].outcome = "aggregate"
          /\ results[Len(results)].errors = errors
          /\ { errors[k].line : k \in 1 .. Len(errors) } = failedLines
          /\ Len(errors) = Cardinality(failedLines)
    /\ pc = "failed" =>
          /\ errors = << >> /\ listing = << >>
          /\ ~referencesDeclared
          /\ \/ failure.msg = "Cannot find variable" /\ failure.name \notin DOMAIN variables
             \/ failure.msg = "Cannot find label" /\ failure.name \notin DOMAIN labels
          /\ results[Len(results)].outcome = "failed"
    /\ (pc = "resolve" /\ referencesDeclared /\ index < Len(expanded)) =>
          invoke(this, expanded[index + 1]).ok
    /\ (pc \in { "layout", "resolve", "returned", "failed" } /\ referencesDeclared) =>
          pc # "failed"

\* C2 witness: the listing returned for a text whose instruction looks up a
\* declared label.
C2_Witness ==
    /\ pc = "returned"
    /\ text = << ".text", "start:", "jump start" >>
    /\ referencesDeclared
    /\ Len(invoked) = 2

\* The errors raised by the call that ended last.
raised == results[Len(results)].errors

\* The first token of the next line to scan; "" for a blank line.
nextFirst ==
    IF trim(text[lineNo + 1]) = "" THEN "" ELSE Head(split(trim(text[lineNo + 1])))

\* With an error on record the scan goes on: the next line is gone through
\* and has its effect (a directive switches the section, an instruction is
\* appended, a new label or global is declared).
scanGoesOn ==
    (pc = "scan" /\ errors # << >> /\ lineNo < Len(text)) =>
        /\ pc' = "scan"
        /\ lineNo' = lineNo + 1
        /\ Len(scanned') = lineNo + 1
        /\ (section # "text" /\ nextFirst = ".text") => section' = "text"
        /\ (section # "data" /\ nextFirst = ".data") => section' = "data"
        /\ ( /\ section = "text" /\ nextFirst \in Mnemonics
             /\ ~argumentsAreMalformed(Tail(split(trim(text[lineNo + 1])))) ) =>
              /\ Len(elementIndex') = Len(elementIndex) + 1
              /\ elementIndex'[Len(elementIndex')].kind = "asm"
              /\ errors' = errors
        /\ (section = "text" /\ text[lineNo + 1] = "start:" /\ "start" \notin DOMAIN labels) =>
              /\ "start" \in DOMAIN labels'
              /\ elementIndex'[labels'["start"]].name = "start"
              /\ errors' = errors
        /\ ( /\ section = "data"
             /\ doesLineStartNewGlobal(trim(text[lineNo + 1]))
             /\ startGlobalDeclaration(text[lineNo + 1]).name \notin DOMAIN variables ) =>
              /\ startGlobalDeclaration(text[lineNo + 1]).name \in DOMAIN variables'
              /\ Len(globalsIndex') = Len(globalsIndex) + 1
              /\ errors' = errors

\* The Aggregate Error carries one error per failing line, in source order,
\* after every line was gone through, and no code is generated.
aggregateIsComplete ==
    pc = "aggregate" =>
        /\ lineNo = Len(text)
        /\ Len(scanned) = Len(text)
        /\ failedLines # { }
        /\ Len(raised) = Cardinality(failedLines)
        /\ \A k \in 1 .. Len(raised) :
              /\ raised[k].line \in failedLines
              /\ raised[k].msg = scanned[raised[k].line].msg
              /\ raised[k].name = scanned[raised[k].line].name
        /\ \A j, k \in 1 .. Len(raised) : j < k => raised[j].line < raised[k].line
        /\ noCodeGeneration

\* C3: a Line Error never stops the scan: every later line is still gone
\* through and its declarations take effect; when the scan ends with a
\* failing line the Aggregate Error carries one error per failing line, all
\* of them and in source order, and the code generation does not run (the
\* step that raises it leaves the object as it is).
C3_ScanCollectsAll ==
    /\ [] aggregateIsComplete
    /\ [][scanGoesOn]_vars
    /\ [][pc' = "aggregate" => (pc = "scan" /\ UNCHANGED instance)]_vars

\* C3 witness: an Aggregate Error of two errors, the failing lines being the
\* first and the last, with the directive between them having switched the
\* section.
C3_Witness ==
    /\ pc = "aggregate"
    /\ Len(raised) = 2
    /\ raised[1].line = 1 /\ raised[2].line = 3
    /\ section = "text"

\* The sum of the first n numbers of sequence f.
RECURSIVE Sum(_, _)
Sum(f, n) == IF n = 0 THEN 0 ELSE f[n] + Sum(f, n - 1)

\* The words global g takes in the listing: its values and, for an Array
\* that has values, the end sentinel.
globalWords(g) ==
    IF Len(g.value.items) = 0 THEN 0
    ELSE Len(g.value.items) + (IF g.typeName = Array THEN 1 ELSE 0)

\* The length of the data segment, header included.
dataLength ==
    1 + Sum([ i \in 1 .. Len(globalsIndex) |-> globalWords(globalsIndex[i]) ],
            Len(globalsIndex))

\* The producers element e contributes to the code layout.
producersOf(e) == IF e.kind = "label" THEN 1 ELSE Len(e.operations)

\* The location the code layout gives the element at position i: the
\* producers laid out before it plus the length of the data segment.
layoutLocation(i) ==
    dataLength + Sum([ j \in 1 .. Len(elementIndex) |-> producersOf(elementIndex[j]) ], i - 1)

\* The lookups of labels done so far by this call that yielded a value.
labelLookups ==
    { k \in 1 .. Len(invoked) :
        /\ expanded[invoked[k].index + 1].ref = "label"
        /\ invoked[k].words # << >> }

\* The element whose producers include the one at 0-based position n of
\* `expanded`.
RECURSIVE ownerOf(_, _)
ownerOf(n, i) ==
    IF n < producersOf(elementIndex[i]) THEN i
    ELSE ownerOf(n - producersOf(elementIndex[i]), i + 1)

\* C4: the value the lookup of label L yields in Phase C is the location the
\* code layout assigned to L (the producers laid out before L plus the data
\* segment length), whether the instruction that refers to L stands before
\* or after the declaration of L.
C4_LabelLookup ==
    \A k \in labelLookups :
        LET name == expanded[invoked[k].index + 1].name
            at   == labels[name]
            got  == invoked[k].words[Len(invoked[k].words)]
        IN  /\ elementIndex[at].kind = "label"
            /\ elementIndex[at].name = name
            /\ got = elementIndex[at].location
            /\ got = layoutLocation(at)
            /\ \A j \in labelLookups :
                  expanded[invoked[j].index + 1].name = name =>
                      invoked[j].words[Len(invoked[j].words)] = got

\* C4 witness: the listing of a text that refers to the label before and
\* after its declaration, both lookups done.
C4_Witness ==
    /\ pc = "returned"
    /\ text = BothWays
    /\ Cardinality(labelLookups) = 2
    /\ \E j, k \in labelLookups :
          /\ ownerOf(invoked[j].index, 1) < labels["start"]
          /\ ownerOf(invoked[k].index, 1) > labels["start"]

\* The words producer p yields.
producerWords(p) == Len(p.words) + (IF p.ref = "none" THEN 0 ELSE 1)

\* The words element e takes in the listing: the placeholder of a label,
\* the words of all producers of an instruction.
elementWords(e) ==
    IF e.kind = "label" THEN 1
    ELSE Sum([ k \in 1 .. Len(e.operations) |-> producerWords(e.operations[k]) ],
             Len(e.operations))

\* The length of the code segment.
codeLength ==
    Sum([ i \in 1 .. Len(elementIndex) |-> elementWords(elementIndex[i]) ],
        Len(elementIndex))

\* C5: the first entry of a returned listing is 0 and the listing has
\* 1 + (the words of all globals, an end sentinel for each Array that has
\* values included) + (the words of all instruction producers and one
\* placeholder per label) entries.
C5_ListingLength ==
    pc = "returned" =>
        /\ listing[1] = "0"
        /\ codes[1] = Entry(0, "")
        /\ Len(listing) = dataLength + codeLength

\* C5 witness: the listing of an Array with a continuation line and nothing
\* else: header, two values, sentinel.
C5_Witness ==
    /\ pc = "returned"
    /\ text = << ".data", "var a array 1", "7" >>
    /\ listing = << "0", "1 #array a", "7", "0 #end a" >>

\* The numbers of the entries of codes.
words(cs) == [ i \in 1 .. Len(cs) |-> cs[i].word ]

\* C6 as stated: emit of the end-to-end example returns five entries, the
\* numbers 0, 5, 1, 2 and the address of `start`, which is 2 and the
\* location of the label.
C6_ExampleAsWritten ==
    (text = Example /\ calls = 1 /\ pc \in Ended) =>
        /\ pc = "returned"
        /\ Len(listing) = 5
        /\ words(codes) = << 0, 5, 1, 2, 2 >>
        /\ codes[5].word = elementIndex[labels["start"]].location

\* C6 amended: emit of the example as written raises an Aggregate Error of
\* one Line Error, for line 4 (`start: noop`: a label with something else
\* on its line), and returns no listing.  With the label on a line of its
\* own (`.data`, `var x 5`, `.text`, `start:`, `noop`, `jump start`) emit on
\* a new object returns a listing of six entries, the numbers 0, 5, 0 (the
\* placeholder of the label), 1, 2 and the address of `start`, which is 2
\* and the location assigned to the label.
C6_ExampleSplit ==
    /\ (text = Example /\ pc \in Ended) =>
          /\ pc = "aggregate"
          /\ listing = << >>
          /\ raised = << [ line |-> 4,
                           msg  |-> "Label must not have anything else on the same line",
                           name |-> "start:" ] >>
    /\ (text = ExampleSplit /\ calls = 1 /\ pc \in Ended) =>
          /\ pc = "returned"
          /\ Len(listing) = 6
          /\ words(codes) = << 0, 5, 0, 1, 2, 2 >>
          /\ listing[2] = "5 #var x"
          /\ elementIndex[labels["start"]].location = 2
          /\ codes[6].word = elementIndex[labels["start"]].location
          /\ codes[elementIndex[labels["start"]].location + 1].comment = "# start -- "

\* C6 witness: the listing returned for the example with the label on a
\* line of its own.
C6_Witness ==
    /\ pc = "returned"
    /\ text = ExampleSplit
    /\ calls = 1
    /\ listing = << "0", "5 #var x", "0 # start -- ", "1 # noop -- NOOP",
                    "2 # jump start -- JUMP", "2" >>

\* The next line to scan, trimmed.
nextLine == trim(text[lineNo + 1])

\* The next line to scan is a `var` declaration, in Data state, of a name
\* the variable table has.
dupVarLine ==
    /\ pc = "scan" /\ lineNo < Len(text)
    /\ section = "data"
    /\ doesLineStartNewGlobal(nextLine)
    /\ startGlobalDeclaration(nextLine).name \in DOMAIN variables

dupVarError(e) == e.msg = "Already have a variable"

\* C7: a `var` line naming a global that is in the variable table fails
\* with an error naming it, the first declaration and the globals list stay
\* as they are, and emit raises an Aggregate Error with that error.
C7_DuplicateGlobal ==
    /\ [][dupVarLine =>
            /\ errors' = Append(errors, [ line |-> lineNo + 1,
                                          msg  |-> "Already have a variable",
                                          name |-> startGlobalDeclaration(nextLine).name ])
            /\ variables' = variables
            /\ globalsIndex' = globalsIndex]_vars
    /\ [](\A k \in 1 .. Len(errors) : dupVarError(errors[k]) =>
            /\ pc \in { "scan", "aggregate" }
            /\ errors[k].name \in DOMAIN variables
            /\ pc = "aggregate" => \E j \in 1 .. Len(raised) : raised[j] = errors[k])
    /\ [](\A n \in DOMAIN variables : globalsIndex[variables[n]].name = n)
    /\ [](\A i, j \in 1 .. Len(globalsIndex) :
            globalsIndex[i].name = globalsIndex[j].name => i = j)

\* C7 witness: the Aggregate Error for an Array declared with a value and
\* declared again without: the first declaration stands.
C7_Witness ==
    /\ pc = "aggregate"
    /\ text = << ".data", "var a array 1", "var a array" >>
    /\ Len(globalsIndex) = 1
    /\ globalsIndex[1].value.items = << 1 >>
    /\ raised = << [ line |-> 3, msg |-> "Already have a variable", name |-> "a" ] >>

\* The next line to scan is a label line, in Text state, of a name the
\* label table has.
dupLabelLine ==
    /\ pc = "scan" /\ lineNo < Len(text)
    /\ section = "text"
    /\ nextLine # ""
    /\ isLabel(nextFirst)
    /\ Len(split(nextLine)) = 1
    /\ getLabel(nextFirst) \in DOMAIN labels

dupLabelError(e) == e.msg = "Already have a label"

\* C8: a label line declaring a name that is in the label table fails with
\* an error naming it, the first label stays and nothing is appended to the
\* element list, and emit raises an Aggregate Error with that error.
C8_DuplicateLabel ==
    /\ [][dupLabelLine =>
            /\ errors' = Append(errors, [ line |-> lineNo + 1,
                                          msg  |-> "Already have a label",
                                          name |-> getLabel(nextFirst) ])
            /\ labels' = labels
            /\ elementIndex' = elementIndex]_vars
    /\ [](\A k \in 1 .. Len(errors) : dupLabelError(errors[k]) =>
            /\ pc \in { "scan", "aggregate" }
            /\ errors[k].name \in DOMAIN labels
            /\ pc = "aggregate" => \E j \in 1 .. Len(raised) : raised[j] = errors[k])
    /\ [](\A n \in DOMAIN labels :
            /\ elementIndex[labels[n]].kind = "label"
            /\ elementIndex[labels[n]].name = n)
    /\ [](\A i, j \in 1 .. Len(elementIndex) :
            ( /\ elementIndex[i].kind = "label" /\ elementIndex[j].kind = "label"
              /\ elementIndex[i].name = elementIndex[j].name ) => i = j)

\* C8 witness: the Aggregate Error for a label declared twice: one element,
\* the label declared first.
C8_Witness ==
    /\ pc = "aggregate"
    /\ text = << ".text", "start:", "start:" >>
    /\ Len(elementIndex) = 1
    /\ labels["start"] = 1
    /\ raised = << [ line |-> 3, msg |-> "Already have a label", name |-> "start" ] >>

\* The next line to scan is a continuation line, in Data state, with a
\* global declared before it.
continuationLine ==
    /\ pc = "scan" /\ lineNo < Len(text)
    /\ section = "data"
    /\ nextLine # ""
    /\ nextFirst # ".text"
    /\ ~doesLineStartNewGlobal(nextLine)
    /\ Len(globalsIndex) > 0

lastGlobal == globalsIndex[Len(globalsIndex)]

\* A step changes the location of a global only in the data layout, which
\* sets it to the place of the global's first value in codes, and only if
\* the global had none.
locationFromLayoutOnly ==
    \A i \in 1 .. Len(globalsIndex) :
        (i <= Len(globalsIndex') /\ globalsIndex'[i].location # globalsIndex[i].location) =>
            /\ pc = "scan" /\ pc' = "layout"
            /\ globalsIndex[i].location = 0
            /\ globalsIndex'[i].location >= 1
            /\ codes'[globalsIndex'[i].location + 1].word = globalsIndex[i].value.items[1]

\* C9: in Data state a continuation line after a Scalar fails with a Line
\* Error and leaves the global as it is; a continuation line (of numbers)
\* after an Array appends its values, in order, to the values of that
\* global, with no error and no change of a location: the location of a
\* global is assigned once, in the data layout.
C9_Continuation ==
    /\ [][(continuationLine /\ lastGlobal.typeName = Scalar) =>
            /\ errors' = Append(errors, [ line |-> lineNo + 1,
                                          msg  |-> "Cannot continue on type",
                                          name |-> Scalar ])
            /\ globalsIndex' = globalsIndex]_vars
    /\ [][( /\ continuationLine /\ lastGlobal.typeName = Array
            /\ ~continuationIsMalformed(nextLine) ) =>
            /\ errors' = errors
            /\ Len(globalsIndex') = Len(globalsIndex)
            /\ \A i \in 1 .. (Len(globalsIndex) - 1) : globalsIndex'[i] = globalsIndex[i]
            /\ globalsIndex'[Len(globalsIndex)].value.items =
                  lastGlobal.value.items \o continueGlobalDeclaration(nextLine)
            /\ globalsIndex'[Len(globalsIndex)].location = lastGlobal.location
            /\ globalsIndex'[Len(globalsIndex)].name = lastGlobal.name
            /\ globalsIndex'[Len(globalsIndex)].typeName = Array]_vars
    /\ [][locationFromLayoutOnly]_vars

\* C9 witness: the end of the scan of a text with a continuation line after
\* a Scalar (the error) and one after an Array (the value appended).
C9_Witness ==
    /\ pc = "scan"
    /\ text = Continuations
    /\ lineNo = 5
    /\ errors = << [ line |-> 3, msg |-> "Cannot continue on type", name |-> "var" ] >>
    /\ globalsIndex[1].value.items = << 5 >>
    /\ globalsIndex[2].value.items = << 1, 7 >>
    /\ globalsIndex[2].location = 0

\* The globals and the labels the text declares: those in the tables when
\* its first call, on a new object, returned.
declaredGlobals == results[1].variables

declaredLabels == results[1].labels

\* C10: the tables and the element list are not reset between emit calls on
\* one object: when a text that assembled on a new object and declares a
\* global or a label is handed to emit of the same object again, the call
\* raises an Aggregate Error with a duplicate-declaration error for each
\* global and each label the text declares; handed to emit of another new
\* object, it returns the listing the first call returned.
C10_SameObjectTwice ==
    \A k \in 2 .. Len(results) :
        /\ results[1].outcome = "returned"
        /\ (results[k].calls >= 2 /\ declaredGlobals \cup declaredLabels # { }) =>
              /\ results[k].outcome = "aggregate"
              /\ results[k].listing = << >>
              /\ \A n \in declaredGlobals : \E j \in 1 .. Len(results[k].errors) :
                    /\ dupVarError(results[k].errors[j])
                    /\ results[k].errors[j].name = n
              /\ \A n \in declaredLabels : \E j \in 1 .. Len(results[k].errors) :
                    /\ dupLabelError(results[k].errors[j])
                    /\ results[k].errors[j].name = n
        /\ results[k].calls = 1 =>
              /\ results[k].outcome = "returned"
              /\ results[k].listing = results[1].listing

\* C10 witness: the second call for the example (label on its own line) on
\* the same object has raised the two duplicate-declaration errors.
C10_Witness ==
    /\ pc = "aggregate"
    /\ text = ExampleSplit
    /\ calls = 2
    /\ Len(results) = 2
    /\ declaredGlobals = { "x" } /\ declaredLabels = { "start" }
    /\ raised = << [ line |-> 2, msg |-> "Already have a variable", name |-> "x" ],
                   [ line |-> 4, msg |-> "Already have a label", name |-> "start" ] >>

\* The words the elements before position i take in the listing.
wordsBefore(i) ==
    Sum([ j \in 1 .. Len(elementIndex) |-> elementWords(elementIndex[j]) ], i - 1)

\* C11 as stated: in a returned listing the location of each label and
\* each instruction is the number of instruction and label words laid out
\* before it plus the length of the data segment, the index of its first
\* word in the listing.
C11_LocationIsListingIndex ==
    (pc = "returned" /\ calls = 1) =>
        \A i \in 1 .. Len(elementIndex) :
            elementIndex[i].location = dataLength + wordsBefore(i)

\* The callback is about to run on the next line.
scanStep == pc = "scan" /\ lineNo < Len(text)

\* The step enters an emit call.
entering == pc # "scan" /\ pc' = "scan"

\* What a scan step does to the section state: it leaves none only on a
\* directive, never goes back to none, and goes from text to data on
\* `.data` and from data to text on `.text`; a step that changes the
\* section state changes nothing else of the object and records no error.
sectionStep ==
    scanStep =>
        /\ section # "none" => section' # "none"
        /\ (section = "none" /\ section' # "none") => nextFirst \in { ".data", ".text" }
        /\ (section = "none" /\ nextFirst = ".data") => section' = "data"
        /\ (section = "none" /\ nextFirst = ".text") => section' = "text"
        /\ (section = "text" /\ nextFirst = ".data") => section' = "data"
        /\ (section = "data" /\ nextFirst = ".text") => section' = "text"
        /\ section' # section =>
              /\ nextFirst \in { ".data", ".text" }
              /\ UNCHANGED instance
              /\ errors' = errors

\* C12: the section state of a call starts at none, leaves none only on a
\* `.data` or `.text` line and never returns to none; in Text state every
\* `.data` line switches to Data and in Data state every `.text` line
\* switches to Text, any number of times, and a switching line adds no
\* global, label or instruction and records no error.
C12_SectionStates ==
    /\ []((pc = "scan" /\ lineNo = 0) => section = "none")
    /\ [][sectionStep]_vars
    /\ [][(~entering /\ section # "none") => section' # "none"]_vars
    /\ [][(~entering /\ ~scanStep) => section' = section]_vars

\* C12 witness: three switches in a row, nothing declared and no error.
C12_Witness ==
    /\ pc = "scan"
    /\ text = << ".text", ".data", ".text" >>
    /\ lineNo = 3
    /\ scanned = << NoError, NoError, NoError >>
    /\ section = "text"
    /\ errors = << >>
    /\ elementIndex = << >> /\ globalsIndex = << >>

\* The next line to scan is a `.data` or `.text` line.
directiveLine == scanStep /\ nextFirst \in { ".data", ".text" }

\* The section state a directive names.
sectionOf(directive) == IF directive = ".data" THEN "data" ELSE "text"

\* C13 as stated: a `.data` or `.text` line, in any section state, raises
\* no Line Error and changes neither the symbol tables, the globals nor
\* the element list.
C13_DirectivesAnywhere ==
    [][directiveLine => (errors' = errors /\ UNCHANGED instance)]_vars

\* C13 amended: a `.data` or `.text` line is handled as a section
\* directive, with no Line Error and no change of the tables, the globals
\* and the element list, when it names another section state than the
\* current one, any number of times.  `.text` in Text state fails as an
\* invalid operation; `.data` in Data state is read as a continuation
\* line: it is ignored when no global exists and fails when the last
\* global is a Scalar.  In these cases the section state and the object
\* stay as they were.
C13_SwitchingDirectives ==
    /\ [][(directiveLine /\ section # sectionOf(nextFirst)) =>
            /\ section' = sectionOf(nextFirst)
            /\ errors' = errors
            /\ UNCHANGED instance]_vars
    /\ [][(directiveLine /\ section = "text" /\ nextFirst = ".text") =>
            /\ errors' = Append(errors, [ line |-> lineNo + 1,
                                          msg  |-> "Invalid operation",
                                          name |-> ".text" ])
            /\ section' = section
            /\ UNCHANGED instance]_vars
    /\ [][(directiveLine /\ section = "data" /\ nextFirst = ".data") =>
            /\ section' = section
            /\ globalsIndex = << >> => (errors' = errors /\ UNCHANGED instance)
            /\ (globalsIndex # << >> /\ lastGlobal.typeName = Scalar) =>
                  /\ errors' = Append(errors, [ line |-> lineNo + 1,
                                                msg  |-> "Cannot continue on type",
                                                name |-> Scalar ])
                  /\ UNCHANGED instance]_vars

\* C13 witness: `.text` in Text state has recorded its error and the
\* `.data` line after it has switched the section state.
C13_Witness ==
    /\ pc = "scan"
    /\ lineNo = 3
    /\ text = << ".text", ".text", ".data" >>
    /\ section = "data"
    /\ errors = << [ line |-> 2, msg |-> "Invalid operation", name |-> ".text" ] >>

\* The first token of line j of the text ("" for a blank line).
firstOf(j) == IF trim(text[j]) = "" THEN "" ELSE Head(split(trim(text[j])))

\* Max of a finite set of naturals, 0 for the empty set.
Max(S) == IF S = { } THEN 0 ELSE CHOOSE m \in S : \A n \in S : n <= m

\* In Data state: the line of the directive that last entered Data state,
\* which is the first `.data` line after the last `.text` line scanned.
runStart ==
    LET lastText == Max({ j \in 1 .. lineNo : firstOf(j) = ".text" }) IN
    CHOOSE j \in (lastText + 1) .. lineNo :
        /\ firstOf(j) = ".data"
        /\ \A k \in (lastText + 1) .. (j - 1) : firstOf(k) # ".data"

\* The lines of the current data run that declared a global.
declaredInRun ==
    { j \in (runStart + 1) .. lineNo :
          doesLineStartNewGlobal(trim(text[j])) /\ scanned[j] = NoError }

\* The next line to scan is, in Data state, neither blank nor `.text` nor a
\* new declaration, and no global has been declared in the current data run.
continuationOfNothing ==
    /\ scanStep
    /\ section = "data"
    /\ nextLine # ""
    /\ nextFirst # ".text"
    /\ ~doesLineStartNewGlobal(nextLine)
    /\ declaredInRun = { }

\* C14 as stated: in Data state a line that is neither `.text` nor a new
\* declaration fails with a Line Error when no global has been declared
\* within the current data run, and no global's value is changed.
C14_ContinuationNeedsGlobalInRun ==
    [][continuationOfNothing =>
          /\ Len(errors') = Len(errors) + 1
          /\ errors'[Len(errors')].line = lineNo + 1
          /\ globalsIndex' = globalsIndex]_vars

\* The name is in the table a producer of kind `ref` looks it up in.
declared(ref, name) ==
    IF ref = "var" THEN name \in DOMAIN variables ELSE name \in DOMAIN labels

\* The next line to scan is, in Text state, a well-formed instruction that
\* refers to a name which is not declared.
referenceToUndeclared ==
    /\ scanStep
    /\ section = "text"
    /\ nextFirst \in { "jump", "load" }
    /\ ~argumentsAreMalformed(Tail(split(nextLine)))
    /\ ~declared(IF nextFirst = "load" THEN "var" ELSE "label", split(nextLine)[2])

\* The producer Phase C is about to invoke looks up a name that is in no
\* table.
lookupOfUndeclared ==
    /\ pc = "resolve"
    /\ index < Len(expanded)
    /\ expanded[index + 1].ref # "none"
    /\ ~declared(expanded[index + 1].ref, expanded[index + 1].name)

\* C15: an instruction that refers to an undeclared variable or label
\* records no Line Error in the scan and is appended with a producer that
\* holds the name; when Phase C invokes that producer and the name is
\* still in no table, the lookup's Error leaves emit at once: it is no
\* part of an Aggregate Error, no further word is generated and no listing
\* is returned.  A listing is returned only if every name referred to is
\* declared.
C15_UndeclaredReference ==
    /\ [][referenceToUndeclared =>
            /\ errors' = errors
            /\ Len(elementIndex') = Len(elementIndex) + 1
            /\ \E k \in lookups(elementIndex'[Len(elementIndex')]) :
                  elementIndex'[Len(elementIndex')].operations[k].name = split(nextLine)[2]]_vars
    /\ [][lookupOfUndeclared =>
            /\ pc' = "failed"
            /\ failure' = DSLError(IF expanded[index + 1].ref = "var"
                                   THEN "Cannot find variable" ELSE "Cannot find label",
                                   expanded[index + 1].name)
            /\ results'[Len(results')].outcome = "failed"
            /\ results'[Len(results')].errors = << >>
            /\ results'[Len(results')].listing = << >>
            /\ codes' = codes /\ listing' = << >> /\ errors' = << >>]_vars
    /\ [](pc = "returned" => referencesDeclared)
    /\ [](pc = "failed" => (scanned # << >> /\ failedLines = { }))

\* C15 witness: emit has failed on the lookup of a variable declared
\* nowhere, after a scan without error and the word of the instruction
\* before it.
C15_Witness ==
    /\ pc = "failed"
    /\ text = << ".text", "noop", "load x" >>
    /\ scanned = << NoError, NoError, NoError >>
    /\ failure = DSLError("Cannot find variable", "x")
    /\ Len(invoked) = 3
    /\ listing = << >>

\* How many times the producer at `index` of expanded has been invoked.
invocations(j) == Cardinality({ k \in 1 .. Len(invoked) : invoked[k].index = j })

\* No producer is invoked before the scan has ended without error and the
\* layout has given every global with values and every element its location.
invokedAfterLayout ==
    invoked # << >> =>
        /\ pc \in { "resolve", "returned", "failed" }
        /\ Len(scanned) = Len(text)
        /\ failedLines = { }
        /\ \A i \in 1 .. Len(elementIndex) : elementIndex[i].location = layoutLocation(i)
        /\ \A i \in 1 .. Len(globalsIndex) :
              globalsIndex[i].value.items # << >> => globalsIndex[i].location >= 1

\* C16 as stated: no producer is invoked before the scan has ended and the
\* locations are final, each producer laid out is invoked exactly once, and
\* none is invoked when a line has failed.
C16_EachProducerOnce ==
    /\ invokedAfterLayout
    /\ (pc \in Ended /\ errors = << >>) =>
          \A j \in 0 .. (Len(expanded) - 1) : invocations(j) = 1
    /\ errors # << >> => invoked = << >>

\* C16 amended: no producer is invoked before the scan of all lines has
\* ended without error and the layout has assigned every location, which no
\* step changes afterwards; the producers are laid out in element order and
\* invoked in that order, each at most once; they are all invoked, each
\* exactly once, when emit returns, while a lookup that throws ends the
\* invocations, so that the producers after it are never invoked.  When any
\* line failed no producer is invoked at all.
C16_ProducersInOrder ==
    /\ [](invokedAfterLayout)
    /\ [][(invoked # << >> /\ ~entering) => UNCHANGED << elementIndex, globalsIndex >>]_vars
    /\ [](pc \in { "resolve", "returned", "failed" } =>
            \A i \in 1 .. Len(elementIndex) :
                elementIndex[i].kind = "asm" =>
                    \A k \in 1 .. Len(elementIndex[i].operations) :
                        expanded[layoutLocation(i) - dataLength + k] =
                            elementIndex[i].operations[k])
    /\ [](\A k \in 1 .. Len(invoked) :
            invoked[k].index = k - 1 /\ k <= Len(expanded))
    /\ [](pc = "returned" => \A j \in 0 .. (Len(expanded) - 1) : invocations(j) = 1)
    /\ [](pc = "failed" =>
            /\ invoked[Len(invoked)].words = << >>
            /\ \A j \in Len(invoked) .. (Len(expanded) - 1) : invocations(j) = 0)
    /\ [](errors # << >> => invoked = << >>)

\* C16 witness: a lookup has thrown with a producer laid out after it that
\* is never invoked.
C16_Witness ==
    /\ pc = "failed"
    /\ text = << ".text", "jump start", "noop" >>
    /\ Len(expanded) = 2
    /\ Len(invoked) = 1
    /\ invocations(1) = 0

\* The globals that have values, as positions of globalsIndex.
withValues == { i \in 1 .. Len(globalsIndex) : globalsIndex[i].value.items # << >> }

\* The global with values declared last before global i; 0 if there is none.
previous(i) == Max({ j \in withValues : j < i })

\* C17: in a returned listing the globals stand right after the header word
\* and before the word of every label and instruction, in declaration
\* order and however the Data and Text sections alternate: the first
\* global with values has location 1, a later one the location of the
\* global with values before it plus the number of its values plus 1 if it
\* is an Array (its end sentinel); the values of a global are the listing
\* entries from its location on, an Array's followed by a zero; a global
\* with no values takes no word.
C17_GlobalsFirst ==
    pc = "returned" =>
        /\ codes[1].word = 0
        /\ \A i \in withValues :
              LET g == globalsIndex[i] IN
              /\ g.location =
                    IF previous(i) = 0 THEN 1
                    ELSE globalsIndex[previous(i)].location
                            + Len(globalsIndex[previous(i)].value.items)
                            + (IF globalsIndex[previous(i)].typeName = Array THEN 1 ELSE 0)
              /\ \A k \in 1 .. Len(g.value.items) :
                    codes[g.location + k].word = g.value.items[k]
              /\ g.typeName = Array =>
                    codes[g.location + Len(g.value.items) + 1] = Entry(0, "#end " \o g.name)
              /\ g.location + globalWords(g) <= dataLength
        /\ dataLength = 1 + Sum([ i \in 1 .. Len(globalsIndex) |->
                                    IF i \in withValues THEN globalWords(globalsIndex[i]) ELSE 0 ],
                                Len(globalsIndex))
        /\ \A i \in 1 .. Len(elementIndex) : elementIndex[i].location >= dataLength
        /\ Len(codes) = dataLength + codeLength
        /\ listing = join(codes)

\* C17 witness: the listing of a program with a Scalar declared before the
\* Text section and an Array after it; both stand before the instruction.
C17_Witness ==
    /\ pc = "returned"
    /\ text = Alternating
    /\ globalsIndex[1].location = 1
    /\ globalsIndex[2].location = 2
    /\ elementIndex[1].location = 4
    /\ words(codes) = << 0, 5, 1, 0, 1 >>

\* The location of an Element no address has been assigned to: the initial
\* value of the field, which is also what a global is constructed with.
Unassigned == 0

\* C18 as stated: from its declaration until the layout of a successful
\* emit, the location of a label, an instruction or a global holds no
\* address derived from the declaration, and when emit fails with line
\* errors no declared element has been given a location.
C18_LocationOnlyFromLayout ==
    (calls = 1 /\ pc \in { "scan", "aggregate" }) =>
        /\ \A i \in 1 .. Len(elementIndex) : elementIndex[i].location = Unassigned
        /\ \A i \in 1 .. Len(globalsIndex) : globalsIndex[i].location = Unassigned

\* The message of the error a scan step records.
recorded == errors'[Len(errors')].msg

\* C19: a line that fails with a Line Error (content before any directive,
\* duplicate label, duplicate global, label with trailing tokens, unknown
\* mnemonic, invalid operand syntax, continuation of a Scalar) leaves the
\* section state, the variable table, the label table, the globals with
\* their values and the element list as they were before the line; the
\* line adds its error to those collected and nothing else.
C19_FailedLineChangesNothing ==
    /\ [][(scanStep /\ errors' # errors) =>
            /\ section' = section
            /\ variables' = variables
            /\ labels' = labels
            /\ globalsIndex' = globalsIndex
            /\ elementIndex' = elementIndex
            /\ Len(errors') = Len(errors) + 1
            /\ \A k \in 1 .. Len(errors) : errors'[k] = errors[k]
            /\ errors'[Len(errors')].line = lineNo + 1
            /\ recorded \in { ".text or .data must be first in program",
                              "Already have a label",
                              "Already have a variable",
                              "Label must not have anything else on the same line",
                              "Invalid operation",
                              "Invalid arguments",
                              "Cannot continue on type",
                              "Malformed continuation" }]_vars
    /\ [][(scanStep /\ section = "none" /\ nextLine # "" /\ nextFirst \notin { ".data", ".text" }) =>
            errors' # errors]_vars
    /\ [][(scanStep /\ section = "text" /\ isLabel(nextFirst)
             /\ (Len(split(nextLine)) > 1 \/ getLabel(nextFirst) \in DOMAIN labels)) =>
            errors' # errors]_vars
    /\ [][(scanStep /\ section = "text" /\ ~isComment(nextFirst) /\ ~isLabel(nextFirst)
             /\ nextLine # "" /\ nextFirst \notin (Mnemonics \cup { ".data" })) =>
            errors' # errors]_vars
    /\ [][(scanStep /\ section = "data" /\ doesLineStartNewGlobal(nextLine)
             /\ startGlobalDeclaration(nextLine).name \in DOMAIN variables) =>
            errors' # errors]_vars

\* C19 witness: a duplicate global, a continuation of a Scalar and a
\* duplicate label have failed in turn (the scan is past line 6 of 7), and
\* the object holds what the three declarations before them left.
C19_Witness ==
    /\ pc = "scan"
    /\ text = Failures
    /\ lineNo = 7
    /\ [ k \in 1 .. Len(errors) |-> errors[k].line ] = << 3, 4, 7 >>
    /\ DOMAIN variables = { "x" } /\ DOMAIN labels = { "start" }
    /\ globalsIndex[1].value.items = << 5 >>
    /\ Len(globalsIndex) = 1 /\ Len(elementIndex) = 1
    /\ section = "text"

\* The step constructs a new assembler object.
constructing == pc \in Ended /\ pc' = "scan" /\ calls' = 1

\* An element but for its location.
declaration(e) == [ e EXCEPT !.location = 0 ]

\* The lists of the object only grow: every element and every global stays
\* at its position, a global possibly with more values.
listsGrow ==
    /\ Len(elementIndex') >= Len(elementIndex)
    /\ \A i \in 1 .. Len(elementIndex) :
          declaration(elementIndex'[i]) = declaration(elementIndex[i])
    /\ Len(globalsIndex') >= Len(globalsIndex)
    /\ \A i \in 1 .. Len(globalsIndex) :
          /\ globalsIndex'[i].name = globalsIndex[i].name
          /\ globalsIndex'[i].typeName = globalsIndex[i].typeName
          /\ Len(globalsIndex'[i].value.items) >= Len(globalsIndex[i].value.items)

\* C20: the element list and the globals list of an assembler object only
\* grow, across lines and across emit calls; for a text that assembled and
\* declares no global and no label, a further emit of it on the same object
\* raises no error and returns the listing of the call before it followed
\* once more by the code words of the first listing: the second listing is
\* the header, then the code of the first listing twice, 1 + 2 * (the code
\* word count of the first listing) entries.
C20_ListsOnlyGrow ==
    /\ [][~constructing => listsGrow]_vars
    /\ [](\A k \in 2 .. Len(results) :
            (results[k].calls >= 2 /\ declaredGlobals \cup declaredLabels = { }) =>
                /\ results[k].outcome = "returned"
                /\ results[k].errors = << >>
                /\ results[k].listing = results[k - 1].listing \o Tail(results[1].listing)
                /\ Len(results[k].listing) =
                      1 + results[k].calls * (Len(results[1].listing) - 1))
    /\ []((pc = "returned" /\ calls >= 2) =>
            LET per == Len(elementIndex) \div calls IN
            /\ Len(elementIndex) = calls * per
            /\ \A i \in 1 .. (Len(elementIndex) - per) :
                  declaration(elementIndex[i + per]) = declaration(elementIndex[i])
            /\ codeLength = Len(codes) - 1)

\* C20 witness: the second emit of two instructions on the same object has
\* returned their words twice.
C20_Witness ==
    /\ pc = "returned"
    /\ calls = 2
    /\ text = << ".text", "noop", "noop" >>
    /\ Len(results) = 2
    /\ Len(results[1].listing) = 3
    /\ words(codes) = << 0, 1, 1, 1, 1 >>
    /\ listing = results[2].listing

====
